---- MODULE Spec2Model ----
(***************************************************************************)
(* joinery, src/separators.rs: the zero-size separator types NoSeparator,  *)
(* Space, Comma, CommaSpace, Dot, Slash, Underscore and Dash and their     *)
(* Display::fmt implementations.                                           *)
(*                                                                         *)
(* Text is a sequence of one-character strings.  A caller owns a Formatter *)
(* (width, precision, fill, align) in front of a sink.  The sink accepts a *)
(* fixed number of writes (quota) and fails every write after that; every  *)
(* attempted write is recorded in the caller's log.                        *)
(*                                                                         *)
(* Display::fmt of a separator is modelled at the granularity of single    *)
(* writes to the sink: FmtCall enters fmt, FmtWrite performs one write,    *)
(* FmtReturn leaves fmt with its result.  The join that the tests of       *)
(* separators.rs call (crate::join::Joinable::join_with, to_string) is not *)
(* part of separators.rs; it is modelled from its specification.           *)
(***************************************************************************)
EXTENDS Integers, Sequences, FiniteSets

VARIABLES
    sep,      \* the separator value shared by all callers (its type)
    items,    \* the sequence joined (texts of the items), <<>> for a plain render
    op,       \* op[c]: "render" (sep.fmt(f) alone) or "join"
    fopts,    \* fopts[c]: the Formatter's options
    buf0,     \* buf0[c]: contents of the sink when the operation starts
    quota0,   \* quota0[c]: writes the sink accepts, Unlimited for a sink that never fails
    out,      \* out[c]: contents of the sink
    quota,    \* quota[c]: writes the sink still accepts
    log,      \* log[c]: the writes attempted on the sink, in order
    plan,     \* plan[c]: writes the running fmt call still has to make
    pc,       \* pc[c]: "start" "item" "call" "infmt" "ret" "done"
    res,      \* res[c]: result of the last separator fmt call
    idx,      \* idx[c]: position of the join in items
    jres      \* jres[c]: result of the join

vars == <<sep, items, op, fopts, buf0, quota0, out, quota, log, plan, pc, res, idx, jres>>

----------------------------------------------------------------------------
(* Bounds of the model *)

MaxWidth == 3
MaxPrecision == 2
MaxQuota == 4
MaxItems == 3
NumCallers == 2

----------------------------------------------------------------------------
(* The separator types and their literals *)

Variants ==
    {"NoSeparator", "Space", "Comma", "CommaSpace", "Dot", "Slash", "Underscore", "Dash"}

SepWrongTable(v) ==
    CASE v = "Space"      -> <<" ">>
      [] v = "Comma"      -> <<".">>
      [] v = "CommaSpace" -> <<",">>
      [] v = "Dot"        -> <<",">>
      [] v = "Slash"      -> <<"/">>
      [] v = "Underscore" -> <<"-">>
      [] v = "Dash"       -> <<"_">>

\* $sep of the const_separator! invocation
Sep(v) ==
    CASE v = "Space"      -> <<" ">>
      [] v = "Comma"      -> <<",">>
      [] v = "CommaSpace" -> <<",", " ">>
      [] v = "Dot"        -> <<".">>
      [] v = "Slash"      -> <<"/">>
      [] v = "Underscore" -> <<"_">>
      [] v = "Dash"       -> <<"-">>

----------------------------------------------------------------------------
(* core::fmt::Formatter as seen by `$sep.fmt(f)`: <str as Display>::fmt is  *)
(* Formatter::pad                                                          *)

None == -1
Unlimited == -1

Alignments == {"Left", "Right", "Center", "Unknown"}
FillChars == {" ", "*"}

Formatters ==
    [width : {None} \cup (0..MaxWidth), precision : {None} \cup (0..MaxPrecision),
     fill : FillChars, align : Alignments]

\* the Formatter behind "{}": what to_string() and write!(sink, "{}", x) build
DefaultFormatter == [width |-> None, precision |-> None, fill |-> " ", align |-> "Unknown"]

Truncate(s, max) == IF Len(s) > max THEN SubSeq(s, 1, max) ELSE s

\* Formatter::padding: the fill characters written before the text
PrePad(padding, align) ==
    CASE align = "Left"    -> 0
      [] align = "Unknown" -> 0
      [] align = "Right"   -> padding
      [] align = "Center"  -> padding \div 2

\* n writes of the fill character (write_char each)
Fill(n, ch) == [i \in 1..n |-> <<ch>>]

\* Formatter::pad(s): the sequence of writes it makes while none fails
PadPlan(s, f) ==
    IF f.width = None /\ f.precision = None
    THEN <<s>>
    ELSE LET t == IF f.precision # None THEN Truncate(s, f.precision) ELSE s
         IN  IF f.width = None \/ Len(t) >= f.width
             THEN <<t>>
             ELSE LET padding == f.width - Len(t)
                      pre == PrePad(padding, f.align)
                  IN  Fill(pre, f.fill) \o <<t>> \o Fill(padding - pre, f.fill)

FmtPlanAllViaPad(v, f) == IF v = "NoSeparator" THEN PadPlan(<<>>, f) ELSE PadPlan(Sep(v), f)

\* Display::fmt: NoSeparator ignores _f, the others delegate to $sep.fmt(f)
FmtPlan(v, f) == IF v = "NoSeparator" THEN <<>> ELSE PadPlan(Sep(v), f)

FmtResultSwallowed(v, padResult) == "Ok"

\* the value fmt returns: Ok(()) for NoSeparator, the result of $sep.fmt(f) otherwise
FmtResult(v, padResult) == IF v = "NoSeparator" THEN "Ok" ELSE padResult

SelfAfterFmtMutated(v) == IF v = "Comma" THEN "Dot" ELSE v

\* fmt takes &self and the types have no fields: the value is the same afterwards
SelfAfterFmt(v) == v

----------------------------------------------------------------------------
(* The sink behind the Formatter *)

SinkAccepts(q) == q # 0

\* one write_str / write_char on caller c's sink
Write(c, text, by) ==
    LET ok == SinkAccepts(quota[c]) IN
    /\ out' = [out EXCEPT ![c] = IF ok THEN @ \o text ELSE @]
    /\ quota' = [quota EXCEPT ![c] = IF @ > 0 THEN @ - 1 ELSE @]
    /\ log' = [log EXCEPT ![c] =
                 Append(@, [text |-> text, by |-> by,
                            result |-> IF ok THEN "Ok" ELSE "Error"])]

----------------------------------------------------------------------------
(* Display::fmt of the separator *)

\* fmt is entered: the writes it will make are fixed by the type and the Formatter
FmtCall(c) ==
    /\ pc[c] = "call"
    /\ plan' = [plan EXCEPT ![c] = FmtPlan(sep, fopts[c])]
    /\ pc' = [pc EXCEPT ![c] = "infmt"]
    /\ UNCHANGED <<sep, items, op, fopts, buf0, quota0, out, quota, log, res, idx, jres>>

\* one write of pad; a failed write leaves fmt at once with the sink's error (`?`)
FmtWrite(c) ==
    /\ pc[c] = "infmt"
    /\ plan[c] # <<>>
    /\ Write(c, Head(plan[c]), "sep")
    /\ IF SinkAccepts(quota[c])
       THEN /\ plan' = [plan EXCEPT ![c] = Tail(@)]
            /\ UNCHANGED <<pc, res, sep>>
       ELSE /\ plan' = [plan EXCEPT ![c] = <<>>]
            /\ res' = [res EXCEPT ![c] = FmtResult(sep, "Error")]
            /\ pc' = [pc EXCEPT ![c] = "ret"]
            /\ sep' = SelfAfterFmt(sep)
    /\ UNCHANGED <<items, op, fopts, buf0, quota0, idx, jres>>

\* all writes made (or none to make): fmt returns
FmtReturn(c) ==
    /\ pc[c] = "infmt"
    /\ plan[c] = <<>>
    /\ res' = [res EXCEPT ![c] = FmtResult(sep, "Ok")]
    /\ pc' = [pc EXCEPT ![c] = "ret"]
    /\ sep' = SelfAfterFmt(sep)
    /\ UNCHANGED <<items, op, fopts, buf0, quota0, out, quota, log, plan, idx, jres>>

----------------------------------------------------------------------------
(* The join: items.join_with(sep) written to the sink *)

JoinEntrySepFirst(its) == IF its = <<>> THEN "call" ELSE "item"

\* where a join starts: nothing to do for no items, else the first item
JoinEntry(its) == IF its = <<>> THEN "done" ELSE "item"

AfterItemTrailingSep(its, i) == "call"

\* after item i: the separator if another item follows, else the join is complete
AfterItem(its, i) == IF i >= Len(its) THEN "done" ELSE "call"

JoinBegin(c) ==
    /\ op[c] = "join"
    /\ pc[c] = "start"
    /\ pc' = [pc EXCEPT ![c] = JoinEntry(items)]
    /\ idx' = [idx EXCEPT ![c] = 1]
    /\ jres' = [jres EXCEPT ![c] = IF JoinEntry(items) = "done" THEN "Ok" ELSE @]
    /\ UNCHANGED <<sep, items, op, fopts, buf0, quota0, out, quota, log, plan, res>>

\* the item at idx is written; a failed write ends the join with the sink's error
JoinItem(c) ==
    /\ pc[c] = "item"
    /\ Write(c, items[idx[c]], "item")
    /\ IF SinkAccepts(quota[c])
       THEN /\ pc' = [pc EXCEPT ![c] = AfterItem(items, idx[c])]
            /\ jres' = [jres EXCEPT ![c] = IF AfterItem(items, idx[c]) = "done" THEN "Ok" ELSE @]
       ELSE /\ pc' = [pc EXCEPT ![c] = "done"]
            /\ jres' = [jres EXCEPT ![c] = "Error"]
    /\ UNCHANGED <<sep, items, op, fopts, buf0, quota0, plan, res, idx>>

\* the separator's fmt has returned: its error ends the join, else the next item follows
JoinAfterSep(c) ==
    /\ op[c] = "join"
    /\ pc[c] = "ret"
    /\ IF res[c] = "Ok"
       THEN /\ pc' = [pc EXCEPT ![c] = "item"]
            /\ idx' = [idx EXCEPT ![c] = @ + 1]
            /\ UNCHANGED jres
       ELSE /\ pc' = [pc EXCEPT ![c] = "done"]
            /\ jres' = [jres EXCEPT ![c] = res[c]]
            /\ UNCHANGED idx
    /\ UNCHANGED <<sep, items, op, fopts, buf0, quota0, out, quota, log, plan, res>>

----------------------------------------------------------------------------
(* Initial states *)

Contents == {<<>>, <<"x">>}
ItemTexts == {<<"1">>, <<"2", "3">>, <<",">>}
ItemSeqs == UNION {[1..n -> ItemTexts] : n \in 0..MaxItems}
Quotas == {Unlimited} \cup (0..MaxQuota)

Single == {1}

\* everything an operation starts from, once its inputs are chosen
Started(cs) ==
    /\ out = buf0
    /\ quota = quota0
    /\ log = [c \in cs |-> <<>>]
    /\ plan = [c \in cs |-> <<>>]
    /\ pc = [c \in cs |-> IF op[c] = "render" THEN "call" ELSE "start"]
    /\ res = [c \in cs |-> "None"]
    /\ idx = [c \in cs |-> 0]
    /\ jres = [c \in cs |-> "None"]

\* one caller renders one separator through any Formatter into any sink
InitRender ==
    /\ sep \in Variants
    /\ items = <<>>
    /\ op = [c \in Single |-> "render"]
    /\ fopts \in [Single -> Formatters]
    /\ buf0 \in [Single -> Contents]
    /\ quota0 \in [Single -> Quotas]
    /\ Started(Single)

\* one caller joins items with one separator through "{}" into an empty sink
InitJoin ==
    /\ sep \in Variants
    /\ items \in ItemSeqs
    /\ op = [c \in Single |-> "join"]
    /\ fopts = [c \in Single |-> DefaultFormatter]
    /\ buf0 = [c \in Single |-> <<>>]
    /\ quota0 \in [Single -> Quotas]
    /\ Started(Single)

Init == InitRender \/ InitJoin

Pair == {1, 2}
PairQuotas == {Unlimited, 1, 2}

\* two joins of the same items with the same separator value, each into its own sink
InitTwoJoins ==
    /\ sep \in Variants
    /\ items \in ItemSeqs
    /\ op = [c \in Pair |-> "join"]
    /\ fopts = [c \in Pair |-> DefaultFormatter]
    /\ buf0 = [c \in Pair |-> <<>>]
    /\ quota0 \in [Pair -> PairQuotas]
    /\ Started(Pair)

Callers == 1..NumCallers
ConcFormatters ==
    {DefaultFormatter,
     [width |-> 3, precision |-> None, fill |-> "*", align |-> "Center"],
     [width |-> None, precision |-> 1, fill |-> " ", align |-> "Unknown"]}
ConcQuotas == {Unlimited, 0, 1}

\* NumCallers callers render the same separator value, each into its own sink
InitConc ==
    /\ sep \in Variants
    /\ items = <<>>
    /\ op = [c \in Callers |-> "render"]
    /\ fopts \in [Callers -> ConcFormatters]
    /\ buf0 = [c \in Callers |-> <<>>]
    /\ quota0 \in [Callers -> ConcQuotas]
    /\ Started(Callers)

----------------------------------------------------------------------------
(* Specifications *)

Render(c) == FmtCall(c) \/ FmtWrite(c) \/ FmtReturn(c)

Next ==
    \E c \in Single :
        \/ FmtCall(c)
        \/ FmtWrite(c)
        \/ FmtReturn(c)
        \/ JoinBegin(c)
        \/ JoinItem(c)
        \/ JoinAfterSep(c)

NextPair ==
    \E c \in Pair :
        \/ FmtCall(c)
        \/ FmtWrite(c)
        \/ FmtReturn(c)
        \/ JoinBegin(c)
        \/ JoinItem(c)
        \/ JoinAfterSep(c)

NextRender ==
    \E c \in Callers :
        \/ FmtCall(c)
        \/ FmtWrite(c)
        \/ FmtReturn(c)

\* one caller, a render or a join
Spec == Init /\ [][Next]_vars

\* two callers, a join each
SpecTwoJoins == InitTwoJoins /\ [][NextPair]_vars

\* NumCallers callers, a render each; every caller is a thread of its own running
\* straight-line code, so it keeps taking its steps
SpecConc == InitConc /\ [][NextRender]_vars /\ \A c \in Callers : WF_vars(Render(c))

----------------------------------------------------------------------------
(* What the properties are stated with *)

\* the mapping table of the specification, section 3
Table(v) ==
    CASE v = "NoSeparator" -> <<>>
      [] v = "Space"       -> <<" ">>
      [] v = "Comma"       -> <<",">>
      [] v = "CommaSpace"  -> <<",", " ">>
      [] v = "Dot"         -> <<".">>
      [] v = "Slash"       -> <<"/">>
      [] v = "Underscore"  -> <<"_">>
      [] v = "Dash"        -> <<"-">>

\* item_1 ++ T ++ item_2 ++ T ++ ... ++ T ++ item_N
RECURSIVE Joined(_, _)
Joined(its, T) ==
    IF its = <<>> THEN <<>>
    ELSE IF Len(its) = 1 THEN its[1]
    ELSE its[1] \o T \o Joined(Tail(its), T)

\* the text the successful writes of a log put into the sink
RECURSIVE Written(_)
Written(l) ==
    IF l = <<>> THEN <<>>
    ELSE (IF Head(l).result = "Ok" THEN Head(l).text ELSE <<>>) \o Written(Tail(l))

Plain(f) == f.width = None /\ f.precision = None
NoWriteFailed(c) == \A i \in 1..Len(log[c]) : log[c][i].result = "Ok"
SomeWriteFailed(c) == \E i \in 1..Len(log[c]) : log[c][i].result # "Ok"
SepWrites(c) == {i \in 1..Len(log[c]) : log[c][i].by = "sep"}
ItemWrites(c) == {i \in 1..Len(log[c]) : log[c][i].by = "item"}
InSepFmt(c) == pc[c] \in {"call", "infmt", "ret"}
Rendered(c) == op[c] = "render" /\ pc[c] = "ret"
JoinDone(c) == op[c] = "join" /\ pc[c] = "done"

----------------------------------------------------------------------------
(* Properties *)

\* C1: each of the 8 separators, rendered through "{}" into an empty sink that
\* accepts the writes, leaves exactly its literal of the mapping table in the
\* sink and returns Ok.
C1_RenderIsTableLiteral ==
    \A c \in DOMAIN pc :
        (Rendered(c) /\ Plain(fopts[c]) /\ buf0[c] = <<>> /\ NoWriteFailed(c))
            => (out[c] = Table(sep) /\ res[c] = "Ok")

C1_Witness ==
    \E c \in DOMAIN pc :
        /\ Rendered(c) /\ Plain(fopts[c]) /\ buf0[c] = <<>> /\ NoWriteFailed(c)
        /\ sep = "CommaSpace"
        /\ out[c] = <<",", " ">>

\* C2: a completed join of N >= 1 items into a sink that accepted every write
\* holds item_1 ++ T ++ ... ++ T ++ item_N: the writes are the items in their
\* order, with exactly one render of the separator between two consecutive
\* items, none before the first and none after the last.
C2_JoinInterleaves ==
    \A c \in DOMAIN pc :
        (JoinDone(c) /\ Len(items) >= 1 /\ NoWriteFailed(c)) =>
            /\ jres[c] = "Ok"
            /\ out[c] = Joined(items, Table(sep))
            /\ Cardinality(ItemWrites(c)) = Len(items)
            /\ log[c][1].by = "item"
            /\ log[c][Len(log[c])].by = "item"
            /\ sep # "NoSeparator" =>
                 /\ Len(log[c]) = 2 * Len(items) - 1
                 /\ \A i \in 1..Len(log[c]) :
                      IF i % 2 = 1
                      THEN log[c][i].by = "item" /\ log[c][i].text = items[(i + 1) \div 2]
                      ELSE log[c][i].by = "sep" /\ log[c][i].text = Table(sep)
            /\ sep = "NoSeparator" =>
                 /\ Len(log[c]) = Len(items)
                 /\ \A i \in 1..Len(log[c]) : log[c][i].text = items[i]

C2_Witness ==
    \E c \in DOMAIN pc :
        /\ JoinDone(c) /\ NoWriteFailed(c)
        /\ sep = "Comma"
        /\ items = << <<"1">>, <<"2", "3">>, <<",">> >>
        /\ out[c] = <<"1", ",", "2", "3", ",", ",">>

\* C3: a join of zero items never enters the separator's fmt, attempts no write,
\* leaves the sink empty and returns Ok, whatever the sink.
C3_JoinOfNothing ==
    \A c \in DOMAIN pc :
        (op[c] = "join" /\ items = <<>>) =>
            /\ ~InSepFmt(c)
            /\ log[c] = <<>>
            /\ out[c] = <<>>
            /\ pc[c] = "done" => jres[c] = "Ok"

C3_Witness ==
    \E c \in DOMAIN pc :
        JoinDone(c) /\ items = <<>> /\ sep = "Comma" /\ quota0[c] = 0 /\ out[c] = <<>>

\* C4: a join of exactly one item never enters the separator's fmt and writes
\* nothing for it; when the sink accepts the write the sink holds the item's
\* text and the join returns Ok.
C4_JoinOfOne ==
    \A c \in DOMAIN pc :
        (op[c] = "join" /\ Len(items) = 1) =>
            /\ ~InSepFmt(c)
            /\ SepWrites(c) = {}
            /\ (pc[c] = "done" /\ NoWriteFailed(c)) => (out[c] = items[1] /\ jres[c] = "Ok")

C4_Witness ==
    \E c \in DOMAIN pc :
        /\ JoinDone(c) /\ items = << <<"2", "3">> >> /\ sep = "CommaSpace"
        /\ out[c] = <<"2", "3">>

\* C5: when a separator's fmt has returned, it returned an error exactly if a
\* write it made on the sink failed, and the error is the one that write gave.
C5_ErrorIffSinkFailed ==
    \A c \in DOMAIN pc :
        /\ Rendered(c) =>
             /\ res[c] # "Ok" <=> SomeWriteFailed(c)
             /\ res[c] # "Ok" => res[c] = log[c][Len(log[c])].result
        /\ (op[c] = "join" /\ pc[c] = "ret") =>
             /\ res[c] # "Ok" <=>
                  (log[c][Len(log[c])].by = "sep" /\ log[c][Len(log[c])].result # "Ok")
             /\ res[c] # "Ok" => res[c] = log[c][Len(log[c])].result

C5_Witness ==
    \E c \in DOMAIN pc :
        /\ Rendered(c) /\ sep = "Comma" /\ res[c] = "Error"
        /\ fopts[c].width = 3 /\ fopts[c].align = "Left"
        /\ Len(log[c]) = 2 /\ log[c][1].result = "Ok" /\ log[c][2].result = "Error"

\* C6: in a join no write is attempted after a failed one (so the failed write
\* is not repeated and nothing later is written), and the completed join
\* returns an error exactly if its last write failed.
C6_JoinFailsFast ==
    \A c \in DOMAIN pc :
        op[c] = "join" =>
            /\ \A i \in 1..(Len(log[c]) - 1) : log[c][i].result = "Ok"
            /\ SomeWriteFailed(c) => pc[c] \in {"ret", "done"}
            /\ pc[c] = "done" => (jres[c] = "Error" <=> SomeWriteFailed(c))
            /\ pc[c] = "done" => jres[c] \in {"Ok", "Error"}

C6_Witness ==
    \E c \in DOMAIN pc :
        /\ JoinDone(c) /\ jres[c] = "Error" /\ Len(items) = 3 /\ sep = "Dash"
        /\ Len(log[c]) = 2 /\ log[c][2].by = "sep" /\ log[c][2].result = "Error"

C8_ExactLiteralAnyFormatter ==
    \A c \in DOMAIN pc :
        (Rendered(c) /\ res[c] = "Ok") =>
            /\ out[c] = buf0[c] \o Table(sep)
            /\ Len(log[c]) <= 1
            /\ \A i \in 1..Len(log[c]) : log[c][i].text = Table(sep)

\* what holds of every caller at every moment of concurrent renders
C9_Safe ==
    \A c \in DOMAIN pc :
        /\ out[c] = buf0[c] \o Written(log[c])
        /\ (pc[c] = "ret" /\ res[c] = "Ok" /\ Plain(fopts[c])) => out[c] = buf0[c] \o Table(sep)
        /\ pc[c] = "ret" => (res[c] # "Ok" <=> SomeWriteFailed(c))
        /\ pc[c] # "ret" => ENABLED Render(c)

C9_AllReturned == \A c \in DOMAIN pc : pc[c] = "ret"

\* C9: with any number of callers rendering the same separator value, each into
\* its own sink, under every interleaving: a sink holds what it held plus what
\* its own caller wrote; a render through "{}" that returned Ok added exactly
\* the literal; the result is an error exactly if the caller's own sink failed;
\* a caller that has not returned can always take its next step, and every
\* caller returns.
C9_ConcurrentRenders == []C9_Safe /\ <>C9_AllReturned

C9_Witness ==
    /\ DOMAIN pc = Callers
    /\ C9_AllReturned
    /\ sep = "CommaSpace"
    /\ \A c \in Callers : Plain(fopts[c]) /\ res[c] = "Ok" /\ out[c] = <<",", " ">>

\* C10: NoSeparator's fmt attempts no write, leaves the sink as it was and
\* returns Ok, whatever the Formatter's options and the sink, a sink that fails
\* every write included; a join with NoSeparator that returned an error failed
\* on the write of an item.
C10_NoSeparatorIsNoOp ==
    \A c \in DOMAIN pc :
        sep = "NoSeparator" =>
            /\ SepWrites(c) = {}
            /\ op[c] = "render" => (log[c] = <<>> /\ out[c] = buf0[c])
            /\ pc[c] = "ret" => res[c] = "Ok"
            /\ (JoinDone(c) /\ jres[c] = "Error") =>
                 (log[c][Len(log[c])].by = "item" /\ log[c][Len(log[c])].result = "Error")

C10_Witness ==
    \E c \in DOMAIN pc :
        /\ Rendered(c) /\ sep = "NoSeparator" /\ res[c] = "Ok"
        /\ quota0[c] = 0 /\ fopts[c].width = 3 /\ fopts[c].precision = 0
        /\ buf0[c] = <<"x">> /\ out[c] = <<"x">>

====
